---- MODULE Spec2Model ----
(***************************************************************************)
(* Curves of space3: Curve (src/src/Curve.ts), BasicCurve                  *)
(* (src/unnamed/part_009) and its ring-buffer variant BufferCurve          *)
(* (src/src/BufferCurve.ts).                                               *)
(*                                                                         *)
(* One curve object is modelled; `kind` says of which class it is.         *)
(* Array indices are the source's 0-based indices; At(P, i) is P[i].       *)
(* A parameter x in [0,1] is the exact fraction x[1]/x[2]; a fractional    *)
(* result (frac, an interpolated position, a length) is carried as its     *)
(* numerator over the denominator x[2] of the parameter it was computed    *)
(* for.  Floating-point rounding is not modelled.                          *)
(*                                                                         *)
(* Solver (src/src/Solver.ts) is modelled by the record `solver` of its    *)
(* fields, under its own specification SolverSpec.  A state vector is the  *)
(* pair <<z, vz>>: position and velocity along one axis of a Vector6.      *)
(* Times, steps and components are integers, so the arithmetic is exact.   *)
(***************************************************************************)
EXTENDS Integers, Sequences, FiniteSets, TLC

\* the object: its class, and its fields positions, dt and _addIndex
VARIABLES kind, positions, dt, addIndex

\* history: positions.length at construction, the last call, the arguments of
\* the push calls while no other call was made, the run of consecutive pop
\* calls, and the push call that the last pop followed immediately
VARIABLES length0, last, pushed, popRun, undone

\* the solver object (fields f, dt, t, u0, u1, tmp), the position of a running
\* solve call (its tmax, the number of loop iterations done, and whether u1
\* was equal to u0 when the loop started), and the last call made on the solver
VARIABLES solver, run, scall

\* a second solver constructed with the same arguments, and the number of
\* step() calls made on each of the two while nothing else was called
VARIABLES twin, steps

cvars == <<kind, positions, dt, addIndex, length0, last, pushed, popRun, undone>>

svars == <<solver, run, scall, twin, steps>>

vars == <<cvars, svars>>

----------------------------------------------------------------------------
(* Bounds *)

MaxCap == 3

MaxLen == 3

MaxDen == 3

MaxExtra == 2

MaxStep == 2

\* largest acceleration k of a gravity field
MaxAccel == 1

\* largest step size dt, largest tmax, the times and components up to which
\* step is called, and the longest tracked run of step() calls
MaxDt == 2

MaxTmax == 2

MaxTime == 3

MaxVal == 3

MaxSteps == 3

\* largest start, end and step of a sampled interval (graph)
MaxA == 2

MaxB == 4

MaxGraphStep == 2

\* largest number of samples of a bufferized curve, and largest total
\* translation of a sample
MaxShared == 2

MaxShift == 1

----------------------------------------------------------------------------
(* Values *)

\* Vector3 samples; every pairwise distance in this set is an integer
Samples == {<<0, 0, 0>>, <<3, 0, 0>>, <<0, 4, 0>>}

\* JavaScript's undefined (a missing array element, an omitted argument)
Undefined == <<>>

\* a number n, as an optional value
Num(n) == <<n>>

\* step arguments of push: omitted, or a number
StepArgs == {Undefined} \cup {Num(n) : n \in 0..MaxStep}

RECURSIVE Gcd(_, _)
Gcd(a, b) == IF b = 0 THEN a ELSE Gcd(b, a % b)

\* parameters x = p/q in [0,1], in lowest terms
Params == {x \in (0..MaxDen) \X (1..MaxDen) : x[1] <= x[2] /\ Gcd(x[1], x[2]) = 1}

\* parameters x = p/q outside [0,1], in lowest terms
OutParams ==
    {x \in ((-MaxDen)..(2 * MaxDen)) \X (1..MaxDen) :
        /\ x[1] < 0 \/ x[1] > x[2]
        /\ Gcd(IF x[1] < 0 THEN -x[1] ELSE x[1], x[2]) = 1}

\* a % b of JavaScript: the remainder has the sign of a
Rem(a, b) == IF a >= 0 THEN a % b ELSE -((-a) % b)

Min(a, b) == IF a < b THEN a ELSE b

Max(a, b) == IF a > b THEN a ELSE b

\* P[i] of a JavaScript array: undefined outside 0..length-1
At(P, i) == IF i \in 0..(Len(P) - 1) THEN P[i + 1] ELSE Undefined

\* The result of a call: whether it threw, and what it returned: a tuple
\* (val: a vector, an index triple, undefined), a sample object (slot: the
\* array element it is, val: its value), a number (num), or a sample with a
\* step (Curve.pop).
NoRet == [threw |-> FALSE, slot |-> -1, val |-> Undefined, num |-> 0,
          step |-> Undefined]

Ok(v) == [NoRet EXCEPT !.val = v]

Ref(P, s) == [NoRet EXCEPT !.slot = s, !.val = At(P, s)]

Number(n) == [NoRet EXCEPT !.num = n]

TypeError == [NoRet EXCEPT !.threw = TRUE]

----------------------------------------------------------------------------
(* Vector3 *)

dist2(u, v) ==
    (u[1] - v[1]) * (u[1] - v[1]) + (u[2] - v[2]) * (u[2] - v[2])
        + (u[3] - v[3]) * (u[3] - v[3])

\* Math.sqrt, exact on the perfect squares the samples produce
sqrt(n) == CHOOSE r \in 0..n : r * r <= n /\ (r + 1) * (r + 1) > n

dist(u, v) == sqrt(dist2(u, v))

\* u.lerpc(v, n/q) = u + (v - u) * n/q, as numerators over q
lerpc(u, v, n, q) ==
    <<u[1] * q + (v[1] - u[1]) * n,
      u[2] * q + (v[2] - u[2]) * n,
      u[3] * q + (v[3] - u[3]) * n>>

\* sum of P[i].dist(P[i - 1]) for i = lo..hi (the loop of lengthAt)
RECURSIVE SumDist(_, _, _)
SumDist(P, lo, hi) ==
    IF lo > hi THEN 0
    ELSE SumDist(P, lo, hi - 1) + dist(At(P, hi), At(P, hi - 1))

\* whether the loop i = lo..hi of lengthAt reads an undefined element
LoopThrows(P, lo, hi) ==
    \E i \in lo..hi : At(P, i) = Undefined \/ At(P, i - 1) = Undefined

----------------------------------------------------------------------------
(* BasicCurve *)

BasicCurve_push(P, v) == Append(P, v)

BasicCurve_pop(P) ==
    [positions |-> SubSeq(P, 1, Len(P) - 1), ret |-> Ref(P, Len(P) - 1)]

\* mutant: the lower index is clamped to the last segment
BasicCurve_indexAt_clamped(P, x) ==
    LET num == x[1] * (Len(P) - 1)
        i0 == Min(num \div x[2], Len(P) - 2)
        i1 == Min(Len(P) - 1, i0 + 1)
    IN  <<i0, i1, num - i0 * x[2]>>

BasicCurve_indexAt(P, x) ==
    LET num == x[1] * (Len(P) - 1)
        i0 == num \div x[2]
        i1 == Min(Len(P) - 1, i0 + 1)
    IN  <<i0, i1, num - i0 * x[2]>>

BasicCurve_positionAt(P, x) ==
    LET ix == BasicCurve_indexAt(P, x)
    IN  IF At(P, ix[1]) = Undefined \/ At(P, ix[2]) = Undefined THEN TypeError
        ELSE Ok(lerpc(At(P, ix[1]), At(P, ix[2]), ix[3], x[2]))

\* mutant: the partial last segment is not counted
BasicCurve_lengthAt_noFrac(P, x) ==
    LET ix == BasicCurve_indexAt(P, x)
    IN  IF \/ LoopThrows(P, 1, ix[1])
           \/ At(P, ix[1]) = Undefined
           \/ At(P, ix[2]) = Undefined
        THEN TypeError
        ELSE Number(SumDist(P, 1, ix[1]) * x[2])

BasicCurve_lengthAt(P, x) ==
    LET ix == BasicCurve_indexAt(P, x)
    IN  IF \/ LoopThrows(P, 1, ix[1])
           \/ At(P, ix[1]) = Undefined
           \/ At(P, ix[2]) = Undefined
        THEN TypeError
        ELSE Number(SumDist(P, 1, ix[1]) * x[2]
                      + dist(At(P, ix[2]), At(P, ix[1])) * ix[3])

----------------------------------------------------------------------------
(* Curve *)

Curve_new(P, step) ==
    [positions |-> P, dt |-> [i \in 1..Max(Len(P) - 1, 0) |-> step]]

\* a || b on optional numbers: undefined and 0 are falsy
OrElse(a, b) == IF a # Undefined /\ a # Num(0) THEN a ELSE b

\* D[D.length - 1]
lastStep(D) == IF Len(D) = 0 THEN Undefined ELSE Num(D[Len(D)])

Curve_push(P, D, v, step) ==
    [positions |-> Append(P, v),
     dt |-> Append(D, OrElse(step, OrElse(lastStep(D), Num(1)))[1])]

Curve_pop(P, D) ==
    [positions |-> SubSeq(P, 1, Len(P) - 1),
     dt |-> SubSeq(D, 1, Len(D) - 1),
     ret |-> [Ref(P, Len(P) - 1) EXCEPT !.step = lastStep(D)]]

Curve_position(P, x) ==
    LET num == x[1] * (Len(P) - 1)
        i0 == num \div x[2]
        i1 == Min(Len(P) - 1, i0 + 1)
    IN  IF At(P, i0) = Undefined \/ At(P, i1) = Undefined THEN TypeError
        ELSE Ok(lerpc(At(P, i0), At(P, i1), num - i0 * x[2], x[2]))

\* length(x), as a numerator over the denominator of x
Curve_length(P, x) ==
    LET num == x[1] * (Len(P) - 1)
        i0 == num \div x[2]
        i1 == Min(Len(P) - 1, i0 + 1)
    IN  IF \/ LoopThrows(P, 1, i0)
           \/ At(P, i0) = Undefined
           \/ At(P, i1) = Undefined
        THEN TypeError
        ELSE Number(SumDist(P, 1, i0) * x[2]
                      + dist(At(P, i1), At(P, i0)) * (num - i0 * x[2]))

----------------------------------------------------------------------------
(* graph *)

\* functions to sample
Graphs == {"line", "parabola"}

\* f(x)
Sample(f, x) == IF f = "line" THEN <<x, 0, 0>> ELSE <<x, x * x, 0>>

\* mutant: the end of the interval is sampled too
graph_test_inclusive(x, b) == x <= b

\* the loop condition x < b
graph_test(x, b) == x < b

\* for (let x = a; x < b; x += dt) array.push(f(x)), from x and array on
RECURSIVE graph_loop(_, _, _, _, _)
graph_loop(f, x, b, step, array) ==
    IF graph_test(x, b)
    THEN graph_loop(f, x + step, b, step, Append(array, Sample(f, x)))
    ELSE array

BasicCurve_graph(f, a, b, step) == graph_loop(f, a, b, step, <<>>)

Curve_graph(f, a, b, step) == Curve_new(graph_loop(f, a, b, step, <<>>), step)

----------------------------------------------------------------------------
(* BufferCurve *)

BufferCurve_get(P, h, i) == Ref(P, (i + h) % Len(P))

BufferCurve_first(P, h) == Ref(P, h)

\* mutant: no wrap-around at head 0
lastIndex_noWrap(P, h) == h - 1

lastIndex(P, h) == IF h > 0 THEN h - 1 ELSE Len(P) - 1

nextoIndex(P, h) == IF h > 1 THEN h - 2 ELSE Len(P) - 2 + h

\* positions[s].copy(v): a TypeError when slot s does not exist
CopyInto(P, s, v) ==
    IF At(P, s) = Undefined THEN [positions |-> P, ret |-> TypeError]
    ELSE [positions |-> [P EXCEPT ![s + 1] = v], ret |-> Ok(Undefined)]

BufferCurve_last(P, h) == Ref(P, lastIndex(P, h))

BufferCurve_nexto(P, h) == Ref(P, nextoIndex(P, h))

BufferCurve_set(P, h, i, v) == CopyInto(P, (i + h) % Len(P), v)

\* mutant: the head is advanced before the sample is written
BufferCurve_push_advanceFirst(P, h, v) ==
    [positions |-> [P EXCEPT ![((h + 1) % Len(P)) + 1] = v],
     addIndex |-> (h + 1) % Len(P)]

BufferCurve_push(P, h, v) ==
    [positions |-> [P EXCEPT ![h + 1] = v], addIndex |-> (h + 1) % Len(P)]

\* mutant: the head retreats without wrapping around
BufferCurve_pop_noWrap(P, h) ==
    [ret |-> Ref(P, lastIndex(P, h)), addIndex |-> Max(h - 1, 0)]

\* mutant: the sample under the head is returned
BufferCurve_pop_atHead(P, h) ==
    [ret |-> Ref(P, h), addIndex |-> IF h = 0 THEN Len(P) - 1 ELSE h - 1]

BufferCurve_pop(P, h) ==
    [ret |-> Ref(P, lastIndex(P, h)),
     addIndex |-> IF h = 0 THEN Len(P) - 1 ELSE h - 1]

\* mutant: clear leaves the head where it is
BufferCurve_clear_keepsHead(P, h) == h

BufferCurve_clear(P, h) == 0

\* mutant: the head offset is left out
BufferCurve_indexAt_noHead(P, h, x) ==
    LET num == x[1] * (Len(P) - 1)
        i0 == (num \div x[2]) % Len(P)
        i1 == Min(Len(P) - 1, i0 + 1)
    IN  <<i0, i1, num - (num \div x[2]) * x[2]>>

\* mutant: the lower index is not reduced modulo the capacity
BufferCurve_indexAt_noModulo(P, h, x) ==
    LET num == x[1] * (Len(P) - 1)
        i0 == (num + h * x[2]) \div x[2]
        i1 == Min(Len(P) - 1, i0 + 1)
    IN  <<i0, i1, num - (num \div x[2]) * x[2]>>

BufferCurve_indexAt(P, h, x) ==
    LET num == x[1] * (Len(P) - 1)
        i0 == Rem((num + h * x[2]) \div x[2], Len(P))
        i1 == Min(Len(P) - 1, i0 + 1)
    IN  <<i0, i1, num - (num \div x[2]) * x[2]>>

BufferCurve_positionAt(P, h, x) ==
    LET ix == BufferCurve_indexAt(P, h, x)
    IN  IF At(P, ix[1]) = Undefined \/ At(P, ix[2]) = Undefined THEN TypeError
        ELSE Ok(lerpc(At(P, ix[1]), At(P, ix[2]), ix[3], x[2]))

BufferCurve_lengthAt(P, h, x) ==
    LET ix == BufferCurve_indexAt(P, h, x)
    IN  IF \/ LoopThrows(P, h, ix[1])
           \/ At(P, ix[1]) = Undefined
           \/ At(P, ix[2]) = Undefined
        THEN TypeError
        ELSE Number(SumDist(P, h, ix[1]) * x[2]
                      + dist(At(P, ix[2]), At(P, ix[1])) * ix[3])

\* the samples of a buffer in logical order: get(0), ..., get(C-1)
Logical(P, h) == [i \in 1..Len(P) |-> BufferCurve_get(P, h, i - 1).val]

----------------------------------------------------------------------------
(* BasicCurve: set and translate *)

\* positions[i].copy(v)
BasicCurve_set(P, i, v) == CopyInto(P, i, v)

\* position.add(u) on every sample
BasicCurve_translate(P, u) ==
    [i \in 1..Len(P) |-> <<P[i][1] + u[1], P[i][2] + u[2], P[i][3] + u[3]>>]

----------------------------------------------------------------------------
(* Solver *)

\* mutant: the scalar is left out
comb_unscaled(u, s, v) == <<u[1] + v[1], u[2] + v[2]>>

\* Vector.comb: u + s * v
comb(u, s, v) == <<u[1] + s * v[1], u[2] + s * v[2]>>

\* the vector fields: constant gravity and the oscillator of the tests, the
\* field u => u of the class documentation, and a time dependent field
Fields ==
    {[name |-> "gravity", k |-> k] : k \in 1..MaxAccel}
        \cup {[name |-> n, k |-> 1] : n \in {"oscillator", "linear", "ramp"}}

\* the value f(u, t)
Derivative(f, u, t) ==
    CASE f.name = "gravity" -> <<u[2], f.k>>
      [] f.name = "oscillator" -> <<u[2], -(f.k * u[2])>>
      [] f.name = "linear" -> u
      [] f.name = "ramp" -> <<t, 0>>

\* whether f returns the object it was given, and whether it overwrites it
ReturnsArg(f) == f.name \in {"gravity", "oscillator", "linear"}

InPlace(f) == f.name \in {"gravity", "oscillator"}

\* a call f(u, t): the value returned and the value left in the argument
Apply(f, u, t) ==
    [ret |-> Derivative(f, u, t),
     arg |-> IF InPlace(f) THEN Derivative(f, u, t) ELSE u]

Solver_new(f, step, u0) ==
    [f |-> f, dt |-> step, t |-> 0, u0 |-> u0, u1 |-> u0, tmp |-> u0]

\* mutant: the field is called with the live buffer u1
Euler_liveBuffer(S) ==
    LET a == Apply(S.f, S.u1, S.t)
    IN  [S EXCEPT !.tmp = S.u1, !.u1 = comb(a.arg, S.dt, a.ret)]

\* mutant: the scratch buffer is not refreshed from u1
Euler_staleTmp(S) ==
    LET a == Apply(S.f, S.tmp, S.t)
    IN  [S EXCEPT !.tmp = a.arg, !.u1 = comb(S.u1, S.dt, a.ret)]

\* tmp.copy(u1); u1.comb(dt, f(tmp, t))
Euler(S) ==
    LET a == Apply(S.f, S.u1, S.t)
    IN  [S EXCEPT !.tmp = a.arg, !.u1 = comb(S.u1, S.dt, a.ret)]

\* if (u0) { this.u0.copy(u0); this.u1.copy(u0) }; this.dt = dt
Restart(S, u0, step) ==
    LET S1 == IF u0 # Undefined THEN [S EXCEPT !.u0 = u0, !.u1 = u0] ELSE S
    IN  [S1 EXCEPT !.dt = IF step = Undefined THEN S.dt ELSE step[1]]

\* mutant: the time advances before the field is evaluated
Solver_step_timeFirst(S, u0, step) ==
    LET S1 == Restart(S, u0, step)
    IN  Euler([S1 EXCEPT !.t = @ + S1.dt])

\* mutant: the time runs backwards
Solver_step_backwards(S, u0, step) ==
    LET S1 == Euler(Restart(S, u0, step))
    IN  [S1 EXCEPT !.t = @ - S1.dt]

Solver_step(S, u0, step) ==
    LET S1 == Euler(Restart(S, u0, step))
    IN  [S1 EXCEPT !.t = @ + S1.dt]

\* solve: the loop initialisation, its condition and one iteration
Solver_solve_init(S, u0, step) == [Restart(S, u0, step) EXCEPT !.t = 0]

\* mutant: the loop runs while t <= tmax
Solver_solve_test_inclusive(S, tmax) == S.t <= tmax

\* mutant: the loop is not entered with a non-positive step
Solver_solve_test_validated(S, tmax) == S.t < tmax /\ S.dt > 0

Solver_solve_test(S, tmax) == S.t < tmax

\* mutant: the loop advances the time before the update
Solver_solve_body_timeFirst(S) == Euler([S EXCEPT !.t = @ + S.dt])

Solver_solve_body(S) ==
    LET S1 == Euler(S)
    IN  [S1 EXCEPT !.t = @ + S1.dt]

\* mutant: the last solution is kept
Solver_reset_keepsU1(S, u0, step) ==
    LET ic == IF u0 = Undefined THEN S.u0 ELSE u0
    IN  [S EXCEPT !.t = 0, !.u0 = ic, !.tmp = ic,
                  !.dt = IF step = Undefined THEN S.dt ELSE step[1]]

Solver_reset(S, u0, step) ==
    LET ic == IF u0 = Undefined THEN S.u0 ELSE u0
    IN  [S EXCEPT !.t = 0, !.u0 = ic, !.u1 = ic, !.tmp = ic,
                  !.dt = IF step = Undefined THEN S.dt ELSE step[1]]

----------------------------------------------------------------------------
(* State *)

State == [positions |-> positions, dt |-> dt, addIndex |-> addIndex]

EmptyState == [positions |-> <<>>, dt |-> <<>>, addIndex |-> 0]

NoArg == [i |-> 0, v |-> Undefined, step |-> Undefined, x |-> <<0, 1>>]

ArgV(v) == [NoArg EXCEPT !.v = v]

ArgI(i) == [NoArg EXCEPT !.i = i]

ArgX(x) == [NoArg EXCEPT !.x = x]

\* the record of a call: its name, arguments, result and the state it ran in
Call(op, arg, ret) == [op |-> op, arg |-> arg, ret |-> ret, pre |-> State]

NoRun == [n |-> 0, from |-> 0]

NoUndone == [op |-> "none", arg |-> NoArg, pre |-> EmptyState]

\* pushed, once a call other than push was made (or the bound was passed)
Untracked == <<Undefined>>

SeqsOf(S, lo, hi) == UNION {[1..n -> S] : n \in lo..hi}

\* ghost variables after a call that is neither a push nor a pop
Other == pushed' = Untracked /\ popRun' = NoRun /\ undone' = NoUndone

\* pop records the push it follows immediately, if any
Undoes ==
    IF last.op = "push"
    THEN [op |-> "push", arg |-> last.arg, pre |-> last.pre]
    ELSE NoUndone

InitGhost ==
    /\ last = [op |-> "new", arg |-> NoArg, ret |-> Ok(Undefined),
               pre |-> EmptyState]
    /\ pushed = <<>>
    /\ popRun = NoRun
    /\ undone = NoUndone
    /\ length0 = Len(positions)

InitBuffer ==
    /\ kind = "BufferCurve"
    /\ positions \in SeqsOf(Samples, 1, MaxCap)
    /\ dt = <<>>
    /\ addIndex = 0

InitBasic ==
    /\ kind = "BasicCurve"
    /\ positions \in SeqsOf(Samples, 0, MaxLen)
    /\ dt = <<>>
    /\ addIndex = 0

InitCurve ==
    /\ kind = "Curve"
    /\ \E P \in SeqsOf(Samples, 0, MaxLen), step \in 0..MaxStep :
          /\ positions = Curve_new(P, step).positions
          /\ dt = Curve_new(P, step).dt
    /\ addIndex = 0

\* no solver is in use
IdleSolver == Solver_new([name |-> "linear", k |-> 1], 1, <<0, 0>>)

Idle == [at |-> "idle", tmax |-> 0, n |-> 0, fresh |-> TRUE]

SCall(op, u0, step, tmax, ret) ==
    [op |-> op, u0 |-> u0, dt |-> step, tmax |-> tmax, ret |-> ret]

Untwinned == [main |-> -1, twin |-> 0]

NoSolver ==
    /\ solver = IdleSolver
    /\ twin = IdleSolver
    /\ run = Idle
    /\ scall = SCall("none", Undefined, Undefined, 0, "none")
    /\ steps = Untwinned

Init == (InitBuffer \/ InitBasic \/ InitCurve) /\ InitGhost /\ NoSolver

\* arguments of the solver's calls
Ics == {<<0, 0>>, <<0, 1>>}

Dts == (-1)..MaxDt

IcArgs == {Undefined} \cup Ics

DtArgs == {Undefined} \cup {Num(n) : n \in Dts}

Tmaxs == (-1)..MaxTmax

\* new Solver(f, dt, u0), and a second instance constructed alike
SolverInit ==
    /\ kind = "Solver"
    /\ positions = <<>>
    /\ dt = <<>>
    /\ addIndex = 0
    /\ InitGhost
    /\ \E f \in Fields, step \in Dts, u0 \in Ics :
          /\ solver = Solver_new(f, step, u0)
          /\ twin = Solver_new(f, step, u0)
          /\ scall = SCall("new", u0, Num(step), 0, "this")
    /\ run = Idle
    /\ steps = [main |-> 0, twin |-> 0]

----------------------------------------------------------------------------
(* BufferCurve calls *)

BufferPush(v) ==
    /\ kind = "BufferCurve"
    /\ LET r == BufferCurve_push(positions, addIndex, v)
       IN  positions' = r.positions /\ addIndex' = r.addIndex
    /\ last' = Call("push", ArgV(v), Ok(Undefined))
    /\ pushed' = IF pushed # Untracked
                    /\ Len(pushed) < Len(positions) + MaxExtra
                 THEN Append(pushed, v) ELSE Untracked
    /\ popRun' = NoRun
    /\ undone' = NoUndone
    /\ UNCHANGED <<svars, kind, length0, dt>>

BufferPop ==
    /\ kind = "BufferCurve"
    /\ LET r == BufferCurve_pop(positions, addIndex)
       IN  /\ addIndex' = r.addIndex
           /\ last' = Call("pop", NoArg, r.ret)
    /\ popRun' = IF popRun.n \in 1..(Len(positions) - 1)
                 THEN [popRun EXCEPT !.n = @ + 1]
                 ELSE [n |-> 1, from |-> addIndex]
    /\ undone' = Undoes
    /\ pushed' = Untracked
    /\ UNCHANGED <<svars, kind, length0, positions, dt>>

BufferClear ==
    /\ kind = "BufferCurve"
    /\ addIndex' = BufferCurve_clear(positions, addIndex)
    /\ last' = Call("clear", NoArg, Ok(Undefined))
    /\ Other
    /\ UNCHANGED <<svars, kind, length0, positions, dt>>

\* get(i), and the getters first, last, nexto
BufferGet(i) ==
    /\ kind = "BufferCurve"
    /\ last' = Call("get", ArgI(i), BufferCurve_get(positions, addIndex, i))
    /\ Other
    /\ UNCHANGED <<svars, kind, length0, positions, dt, addIndex>>

BufferFirst ==
    /\ kind = "BufferCurve"
    /\ last' = Call("first", NoArg, BufferCurve_first(positions, addIndex))
    /\ Other
    /\ UNCHANGED <<svars, kind, length0, positions, dt, addIndex>>

BufferLast ==
    /\ kind = "BufferCurve"
    /\ last' = Call("last", NoArg, BufferCurve_last(positions, addIndex))
    /\ Other
    /\ UNCHANGED <<svars, kind, length0, positions, dt, addIndex>>

BufferNexto ==
    /\ kind = "BufferCurve"
    /\ last' = Call("nexto", NoArg, BufferCurve_nexto(positions, addIndex))
    /\ Other
    /\ UNCHANGED <<svars, kind, length0, positions, dt, addIndex>>

\* set(i, v), and the setters first = v, last = v, nexto = v
BufferSet(i, v) ==
    /\ kind = "BufferCurve"
    /\ LET r == BufferCurve_set(positions, addIndex, i, v)
       IN  /\ positions' = r.positions
           /\ last' = Call("set", [NoArg EXCEPT !.i = i, !.v = v], r.ret)
    /\ Other
    /\ UNCHANGED <<svars, kind, length0, dt, addIndex>>

BufferSetFirst(v) ==
    /\ kind = "BufferCurve"
    /\ LET r == CopyInto(positions, addIndex, v)
       IN  /\ positions' = r.positions
           /\ last' = Call("setFirst", ArgV(v), r.ret)
    /\ Other
    /\ UNCHANGED <<svars, kind, length0, dt, addIndex>>

BufferSetLast(v) ==
    /\ kind = "BufferCurve"
    /\ LET r == CopyInto(positions, lastIndex(positions, addIndex), v)
       IN  /\ positions' = r.positions
           /\ last' = Call("setLast", ArgV(v), r.ret)
    /\ Other
    /\ UNCHANGED <<svars, kind, length0, dt, addIndex>>

BufferSetNexto(v) ==
    /\ kind = "BufferCurve"
    /\ LET r == CopyInto(positions, nextoIndex(positions, addIndex), v)
       IN  /\ positions' = r.positions
           /\ last' = Call("setNexto", ArgV(v), r.ret)
    /\ Other
    /\ UNCHANGED <<svars, kind, length0, dt, addIndex>>

BufferIndexAt(x) ==
    /\ kind = "BufferCurve"
    /\ last' = Call("indexAt", ArgX(x),
                    Ok(BufferCurve_indexAt(positions, addIndex, x)))
    /\ Other
    /\ UNCHANGED <<svars, kind, length0, positions, dt, addIndex>>

BufferPositionAt(x) ==
    /\ kind = "BufferCurve"
    /\ last' = Call("positionAt", ArgX(x),
                    BufferCurve_positionAt(positions, addIndex, x))
    /\ Other
    /\ UNCHANGED <<svars, kind, length0, positions, dt, addIndex>>

BufferLengthAt(x) ==
    /\ kind = "BufferCurve"
    /\ last' = Call("lengthAt", ArgX(x),
                    BufferCurve_lengthAt(positions, addIndex, x))
    /\ Other
    /\ UNCHANGED <<svars, kind, length0, positions, dt, addIndex>>

----------------------------------------------------------------------------
(* BasicCurve calls *)

BasicPush(v) ==
    /\ kind = "BasicCurve"
    /\ Len(positions) < MaxLen
    /\ positions' = BasicCurve_push(positions, v)
    /\ last' = Call("push", ArgV(v), Ok(Undefined))
    /\ Other
    /\ UNCHANGED <<svars, kind, length0, dt, addIndex>>

BasicPop ==
    /\ kind = "BasicCurve"
    /\ LET r == BasicCurve_pop(positions)
       IN  /\ positions' = r.positions
           /\ last' = Call("pop", NoArg, r.ret)
    /\ undone' = Undoes
    /\ pushed' = Untracked
    /\ popRun' = NoRun
    /\ UNCHANGED <<svars, kind, length0, dt, addIndex>>

BasicClear ==
    /\ kind = "BasicCurve"
    /\ positions' = <<>>
    /\ last' = Call("clear", NoArg, Ok(Undefined))
    /\ Other
    /\ UNCHANGED <<svars, kind, length0, dt, addIndex>>

BasicIndexAt(x) ==
    /\ kind = "BasicCurve"
    /\ last' = Call("indexAt", ArgX(x), Ok(BasicCurve_indexAt(positions, x)))
    /\ Other
    /\ UNCHANGED <<svars, kind, length0, positions, dt, addIndex>>

BasicPositionAt(x) ==
    /\ kind = "BasicCurve"
    /\ last' = Call("positionAt", ArgX(x), BasicCurve_positionAt(positions, x))
    /\ Other
    /\ UNCHANGED <<svars, kind, length0, positions, dt, addIndex>>

BasicLengthAt(x) ==
    /\ kind = "BasicCurve"
    /\ last' = Call("lengthAt", ArgX(x), BasicCurve_lengthAt(positions, x))
    /\ Other
    /\ UNCHANGED <<svars, kind, length0, positions, dt, addIndex>>

----------------------------------------------------------------------------
(* Curve calls *)

CurvePush(v, step) ==
    /\ kind = "Curve"
    /\ Len(positions) < MaxLen
    /\ LET r == Curve_push(positions, dt, v, step)
       IN  positions' = r.positions /\ dt' = r.dt
    /\ last' = Call("push", [NoArg EXCEPT !.v = v, !.step = step], Ok(Undefined))
    /\ Other
    /\ UNCHANGED <<svars, kind, length0, addIndex>>

CurvePop ==
    /\ kind = "Curve"
    /\ LET r == Curve_pop(positions, dt)
       IN  /\ positions' = r.positions
           /\ dt' = r.dt
           /\ last' = Call("pop", NoArg, r.ret)
    /\ undone' = Undoes
    /\ pushed' = Untracked
    /\ popRun' = NoRun
    /\ UNCHANGED <<svars, kind, length0, addIndex>>

CurveClear ==
    /\ kind = "Curve"
    /\ positions' = <<>>
    /\ dt' = <<>>
    /\ last' = Call("clear", NoArg, Ok(Undefined))
    /\ Other
    /\ UNCHANGED <<svars, kind, length0, addIndex>>

CurvePosition(x) ==
    /\ kind = "Curve"
    /\ last' = Call("position", ArgX(x), Curve_position(positions, x))
    /\ Other
    /\ UNCHANGED <<svars, kind, length0, positions, dt, addIndex>>

CurveLength(x) ==
    /\ kind = "Curve"
    /\ last' = Call("length", ArgX(x), Curve_length(positions, x))
    /\ Other
    /\ UNCHANGED <<svars, kind, length0, positions, dt, addIndex>>

----------------------------------------------------------------------------
(* graph calls *)

GraphArg(f, a, b, step) == [f |-> f, a |-> a, b |-> b, step |-> step]

\* no curve yet: graph is a static factory
GraphInit ==
    /\ kind = "none"
    /\ positions = <<>>
    /\ dt = <<>>
    /\ addIndex = 0
    /\ last = [op |-> "none", arg |-> GraphArg("line", 0, 0, 1),
               ret |-> Ok(Undefined), pre |-> EmptyState]
    /\ pushed = <<>>
    /\ popRun = NoRun
    /\ undone = NoUndone
    /\ length0 = 0
    /\ NoSolver

BasicGraph(f, a, b, step) ==
    /\ kind' = "BasicCurve"
    /\ positions' = BasicCurve_graph(f, a, b, step)
    /\ dt' = <<>>
    /\ length0' = Len(positions')
    /\ last' = [op |-> "graph", arg |-> GraphArg(f, a, b, step),
                ret |-> Ok(Undefined), pre |-> EmptyState]
    /\ UNCHANGED <<svars, addIndex, pushed, popRun, undone>>

CurveGraph(f, a, b, step) ==
    /\ kind' = "Curve"
    /\ positions' = Curve_graph(f, a, b, step).positions
    /\ dt' = Curve_graph(f, a, b, step).dt
    /\ length0' = Len(positions')
    /\ last' = [op |-> "graph", arg |-> GraphArg(f, a, b, step),
                ret |-> Ok(Undefined), pre |-> EmptyState]
    /\ UNCHANGED <<svars, addIndex, pushed, popRun, undone>>

GraphNext ==
    \/ \E f \in Graphs, a \in 0..MaxA, b \in 0..MaxB, step \in 1..MaxGraphStep :
          BasicGraph(f, a, b, step)
    \/ \E f \in Graphs, a \in 0..MaxA, b \in 0..MaxB, step \in 1..MaxGraphStep :
          CurveGraph(f, a, b, step)

GraphSpec == GraphInit /\ [][GraphNext]_vars

----------------------------------------------------------------------------
(* A BasicCurve and the BufferCurve made from it by bufferize *)

\* bufferize(curve) is new BufferCurve(curve.positions), and the constructor
\* keeps the array it is given: the array `positions` of the model is the one
\* array object that curve.positions and buffer.positions both refer to, and
\* addIndex is the head of the buffer.
SourcePositions == positions

BufferPositions == positions

\* translations of the source curve
Shifts == {<<0, 0, 1>>}

BufferizeInit ==
    /\ kind = "Bufferized"
    /\ positions \in SeqsOf(Samples, 0, MaxShared)
    /\ dt = <<>>
    /\ addIndex = 0
    /\ InitGhost
    /\ NoSolver

SourcePush(v) ==
    /\ kind = "Bufferized"
    /\ Len(positions) < MaxShared
    /\ positions' = BasicCurve_push(positions, v)
    /\ last' = Call("source.push", ArgV(v), Ok(Undefined))
    /\ Other
    /\ UNCHANGED <<svars, kind, length0, dt, addIndex>>

SourcePop ==
    /\ kind = "Bufferized"
    /\ LET r == BasicCurve_pop(positions)
       IN  /\ positions' = r.positions
           /\ last' = Call("source.pop", NoArg, r.ret)
    /\ Other
    /\ UNCHANGED <<svars, kind, length0, dt, addIndex>>

SourceSet(i, v) ==
    /\ kind = "Bufferized"
    /\ LET r == BasicCurve_set(positions, i, v)
       IN  /\ positions' = r.positions
           /\ last' = Call("source.set", [NoArg EXCEPT !.i = i, !.v = v],
                           r.ret)
    /\ Other
    /\ UNCHANGED <<svars, kind, length0, dt, addIndex>>

SourceTranslate(u) ==
    /\ kind = "Bufferized"
    /\ \A i \in 1..Len(positions) : positions[i][3] < MaxShift
    /\ positions' = BasicCurve_translate(positions, u)
    /\ last' = Call("source.translate", ArgV(u), Ok(Undefined))
    /\ Other
    /\ UNCHANGED <<svars, kind, length0, dt, addIndex>>

\* buffer.push(v): positions[head].copy(v) is a TypeError when the array no
\* longer has a slot under the head
SharedBufferPush(v) ==
    /\ kind = "Bufferized"
    /\ IF At(positions, addIndex) = Undefined
       THEN /\ last' = Call("buffer.push", ArgV(v), TypeError)
            /\ UNCHANGED <<positions, addIndex>>
       ELSE /\ LET r == BufferCurve_push(positions, addIndex, v)
               IN  positions' = r.positions /\ addIndex' = r.addIndex
            /\ last' = Call("buffer.push", ArgV(v), Ok(Undefined))
    /\ Other
    /\ UNCHANGED <<svars, kind, length0, dt>>

\* buffer.set(i, v): (i + head) % 0 is NaN, and positions[NaN] is undefined
SharedBufferSet(i, v) ==
    /\ kind = "Bufferized"
    /\ LET r == IF Len(positions) = 0
                THEN [positions |-> positions, ret |-> TypeError]
                ELSE BufferCurve_set(positions, addIndex, i, v)
       IN  /\ positions' = r.positions
           /\ last' = Call("buffer.set", [NoArg EXCEPT !.i = i, !.v = v],
                           r.ret)
    /\ Other
    /\ UNCHANGED <<svars, kind, length0, dt, addIndex>>

BufferizeNext ==
    \/ \E v \in Samples : SourcePush(v)
    \/ SourcePop
    \/ \E i \in 0..(MaxShared - 1), v \in Samples : SourceSet(i, v)
    \/ \E u \in Shifts : SourceTranslate(u)
    \/ \E v \in Samples : SharedBufferPush(v)
    \/ \E i \in 0..(MaxShared - 1), v \in Samples : SharedBufferSet(i, v)

BufferizeSpec == BufferizeInit /\ [][BufferizeNext]_vars

----------------------------------------------------------------------------
(* Solver calls *)

Abs(n) == IF n < 0 THEN -n ELSE n

\* the times and components up to which calls are made
InRange(S) ==
    /\ Abs(S.t) <= MaxTime
    /\ Abs(S.u1[1]) <= MaxVal
    /\ Abs(S.u1[2]) <= MaxVal

\* the two solvers are compared while only step() is called
Untwin == twin' = IdleSolver /\ steps' = Untwinned

SolverStep(u0, step) ==
    /\ kind = "Solver"
    /\ run.at = "idle"
    /\ InRange(Solver_step(solver, u0, step))
    /\ solver' = Solver_step(solver, u0, step)
    /\ scall' = SCall("step", u0, step, 0, "u1")
    /\ run' = Idle
    /\ IF u0 = Undefined /\ step = Undefined /\ steps.main \in 0..(MaxSteps - 1)
       THEN twin' = twin /\ steps' = [steps EXCEPT !.main = @ + 1]
       ELSE Untwin
    /\ UNCHANGED cvars

TwinStep ==
    /\ kind = "Solver"
    /\ run.at = "idle"
    /\ steps.main >= 0
    /\ steps.twin < MaxSteps
    /\ InRange(Solver_step(twin, Undefined, Undefined))
    /\ twin' = Solver_step(twin, Undefined, Undefined)
    /\ steps' = [steps EXCEPT !.twin = @ + 1]
    /\ UNCHANGED <<cvars, solver, run, scall>>

\* solve(tmax, u0, dt): entry and loop initialisation
SolveBegin(tmax, u0, step) ==
    /\ kind = "Solver"
    /\ run.at = "idle"
    /\ InRange(Solver_solve_init(solver, u0, step))
    /\ solver' = Solver_solve_init(solver, u0, step)
    /\ run' = [at |-> "solve", tmax |-> tmax, n |-> 0,
               fresh |-> solver'.u1 = solver'.u0]
    /\ scall' = SCall("solve", u0, step, tmax, "none")
    /\ Untwin
    /\ UNCHANGED cvars

\* one iteration of the loop of solve
SolveIter ==
    /\ kind = "Solver"
    /\ run.at = "solve"
    /\ Solver_solve_test(solver, run.tmax)
    /\ solver.dt > 0 \/ run.n < MaxTime
    /\ solver' = Solver_solve_body(solver)
    /\ run' = [run EXCEPT !.n = @ + 1]
    /\ UNCHANGED <<cvars, scall, twin, steps>>

\* the loop ends and solve returns this.u1
SolveReturn ==
    /\ kind = "Solver"
    /\ run.at = "solve"
    /\ ~Solver_solve_test(solver, run.tmax)
    /\ run' = [run EXCEPT !.at = "idle"]
    /\ scall' = [scall EXCEPT !.ret = "u1"]
    /\ UNCHANGED <<cvars, solver, twin, steps>>

SolverReset(u0, step) ==
    /\ kind = "Solver"
    /\ run.at = "idle"
    /\ solver' = Solver_reset(solver, u0, step)
    /\ scall' = SCall("reset", u0, step, 0, "this")
    /\ run' = Idle
    /\ Untwin
    /\ UNCHANGED cvars

SolverNext ==
    \/ \E u0 \in IcArgs, step \in DtArgs : SolverStep(u0, step)
    \/ TwinStep
    \/ \E tmax \in Tmaxs, u0 \in IcArgs, step \in DtArgs :
          SolveBegin(tmax, u0, step)
    \/ SolveIter
    \/ SolveReturn
    \/ \E u0 \in IcArgs, step \in DtArgs : SolverReset(u0, step)

SolverSpec == SolverInit /\ [][SolverNext]_vars

\* a running solve call is not suspended: all operations are synchronous
SolverLive ==
    SolverSpec /\ WF_vars(SolveIter) /\ WF_vars(SolveReturn)

----------------------------------------------------------------------------

Next ==
    \/ \E v \in Samples : BufferPush(v)
    \/ BufferPop
    \/ BufferClear
    \/ \E i \in 0..(Len(positions) - 1) : BufferGet(i)
    \/ BufferFirst
    \/ BufferLast
    \/ BufferNexto
    \/ \E i \in 0..(Len(positions) - 1), v \in Samples : BufferSet(i, v)
    \/ \E v \in Samples : BufferSetFirst(v)
    \/ \E v \in Samples : BufferSetLast(v)
    \/ \E v \in Samples : BufferSetNexto(v)
    \/ \E x \in Params : BufferIndexAt(x)
    \/ \E x \in Params : BufferPositionAt(x)
    \/ \E x \in Params : BufferLengthAt(x)
    \/ \E v \in Samples : BasicPush(v)
    \/ BasicPop
    \/ BasicClear
    \/ \E x \in Params : BasicIndexAt(x)
    \/ \E x \in Params : BasicPositionAt(x)
    \/ \E x \in Params : BasicLengthAt(x)
    \/ \E v \in Samples, step \in StepArgs : CurvePush(v, step)
    \/ CurvePop
    \/ CurveClear
    \/ \E x \in Params : CurvePosition(x)

Spec == Init /\ [][Next]_vars

\* The length queries of BasicCurve and Curve on every curve that can be
\* constructed from the samples.
LengthNext ==
    \/ \E x \in Params : BasicLengthAt(x)
    \/ \E x \in Params : CurveLength(x)

LengthInit == (InitBasic \/ InitCurve) /\ InitGhost /\ NoSolver

LengthSpec == LengthInit /\ [][LengthNext]_vars

\* The parametrized queries with a parameter outside [0,1], on every curve
\* that can be constructed from the samples.
RangeNext ==
    \/ \E x \in OutParams : BufferIndexAt(x)
    \/ \E x \in OutParams : BufferPositionAt(x)
    \/ \E x \in OutParams : BufferLengthAt(x)
    \/ \E x \in OutParams : BasicIndexAt(x)
    \/ \E x \in OutParams : BasicPositionAt(x)
    \/ \E x \in OutParams : BasicLengthAt(x)
    \/ \E x \in OutParams : CurvePosition(x)
    \/ \E x \in OutParams : CurveLength(x)

RangeSpec == Init /\ [][RangeNext]_vars

\* The calls of a BufferCurve alone.
BufferNext ==
    \/ \E v \in Samples : BufferPush(v)
    \/ BufferPop
    \/ BufferClear
    \/ \E i \in 0..(Len(positions) - 1) : BufferGet(i)
    \/ BufferFirst
    \/ BufferLast
    \/ BufferNexto
    \/ \E i \in 0..(Len(positions) - 1), v \in Samples : BufferSet(i, v)
    \/ \E v \in Samples : BufferSetFirst(v)
    \/ \E v \in Samples : BufferSetLast(v)
    \/ \E v \in Samples : BufferSetNexto(v)
    \/ \E x \in Params : BufferIndexAt(x)
    \/ \E x \in Params : BufferPositionAt(x)
    \/ \E x \in Params : BufferLengthAt(x)

BufferInit == InitBuffer /\ InitGhost /\ NoSolver

BufferSpec == BufferInit /\ [][BufferNext]_vars

----------------------------------------------------------------------------
(* Properties *)

IsBuffer == kind = "BufferCurve"

\* (n) mod C of the ring, as a 0-based slot
Slot(n) == n % Len(positions)

\* the call `last` was a positionAt / position query
IsPositionCall == last.op \in {"positionAt", "position"}

\* first and last logical sample of the curve
FirstSample == IF IsBuffer THEN At(positions, addIndex) ELSE At(positions, 0)

LastSample ==
    IF IsBuffer THEN At(positions, Slot(addIndex - 1))
    ELSE At(positions, Len(positions) - 1)

\* C1: ring invariant. After C + k push calls (k > 0) on a buffer constructed
\* with C samples, get(0), ..., get(C-1) are the last C pushed values in push
\* order, last is the most recent push, and the store still has C slots.
C1_RingInvariant ==
    (IsBuffer /\ pushed # Untracked /\ Len(pushed) > length0) =>
        /\ Len(positions) = length0
        /\ \A i \in 0..(length0 - 1) :
              BufferCurve_get(positions, addIndex, i).val
                  = pushed[Len(pushed) - length0 + i + 1]
        /\ BufferCurve_last(positions, addIndex).val = pushed[Len(pushed)]

C1_Witness ==
    /\ IsBuffer
    /\ length0 = 3
    /\ pushed # Untracked
    /\ Len(pushed) = length0 + 2
    /\ pushed[3] # pushed[4]
    /\ pushed[4] # pushed[5]

\* the result of the pop that followed a push(v[, step]) immediately
PoppedSample == last.ret.val

RoundTrip == last.op = "pop" /\ undone.op = "push"

C3_Boundary ==
    (IsPositionCall /\ Len(positions) >= 2) =>
        /\ last.arg.x = <<0, 1>> => last.ret = Ok(FirstSample)
        /\ last.arg.x = <<1, 1>> => last.ret = Ok(LastSample)

C3_Witness ==
    /\ IsBuffer
    /\ last.op = "positionAt"
    /\ last.arg.x = <<1, 1>>
    /\ Len(positions) = 3
    /\ addIndex = 2
    /\ FirstSample # LastSample
    /\ last.ret = Ok(LastSample)

\* a result r1 (over denominator q1) is at most r2 (over q2)
LeqOver(r1, q1, r2, q2) == r1 * q2 <= r2 * q1

\* C4 (as claimed): monotonicity. For 0 <= x1 <= x2 <= 1, lengthAt(x1) <=
\* lengthAt(x2), on BasicCurve and on BufferCurve at every head position.
\* Stated for the calls that return a number.
C4_LengthMonotone ==
    (last.op = "lengthAt" /\ ~last.ret.threw) =>
        \A x2 \in Params :
            LET x1 == last.arg.x
                r2 == IF IsBuffer
                      THEN BufferCurve_lengthAt(positions, addIndex, x2)
                      ELSE BasicCurve_lengthAt(positions, x2)
            IN  (x1[1] * x2[2] <= x2[1] * x1[2] /\ ~r2.threw)
                    => LeqOver(last.ret.num, x1[2], r2.num, x2[2])

\* floor(x * (N - 1)) for the curve's N samples
FloorScale(x) == (x[1] * (Len(positions) - 1)) \div x[2]

\* C5 (as claimed): on N >= 2 samples indexAt(x) returns i0 = floor(x*(N-1))
\* clamped to [0, N-2], i1 = min(N-1, i0+1) and frac = x*(N-1) - i0; x = 0
\* gives i0 = 0, frac = 0 and x = 1 gives i1 = N-1 with frac completing the
\* trailing segment (i0 = N-2, frac = 1).
C5_IndexAtClaimed ==
    (kind = "BasicCurve" /\ last.op = "indexAt" /\ Len(positions) >= 2) =>
        LET x == last.arg.x
            N == Len(positions)
            i0 == Min(FloorScale(x), N - 2)
        IN  last.ret.val = <<i0, Min(N - 1, i0 + 1), x[1] * (N - 1) - i0 * x[2]>>

\* C5 (amended): on N >= 2 samples indexAt(x) returns i0 = floor(x*(N-1)),
\* which is not clamped (0 <= i0 <= N-1), i1 = min(N-1, i0+1) and
\* frac = x*(N-1) - i0 with 0 <= frac < 1; x = 0 gives (0, 1, 0) and x = 1
\* gives (N-1, N-1, 0). Curve.position(x) interpolates between the samples
\* i0 and i1 by frac.
C5_IndexAt ==
    LET x == last.arg.x
        N == Len(positions)
        i0 == FloorScale(x)
        i1 == Min(N - 1, i0 + 1)
        frac == x[1] * (N - 1) - i0 * x[2]
    IN  /\ (kind = "BasicCurve" /\ last.op = "indexAt" /\ N >= 2) =>
              /\ last.ret.val = <<i0, i1, frac>>
              /\ i0 \in 0..(N - 1) /\ frac >= 0 /\ frac < x[2]
              /\ x = <<0, 1>> => last.ret.val = <<0, 1, 0>>
              /\ x = <<1, 1>> => last.ret.val = <<N - 1, N - 1, 0>>
        /\ (kind = "Curve" /\ last.op = "position" /\ N >= 2) =>
              last.ret = Ok(lerpc(At(positions, i0), At(positions, i1), frac, x[2]))

C5_Witness ==
    /\ kind = "BasicCurve"
    /\ last.op = "indexAt"
    /\ Len(positions) = 3
    /\ last.arg.x = <<1, 1>>
    /\ last.ret.val = <<2, 2, 0>>

\* C6 (as claimed): BufferCurve.positionAt(x) equals positionAt(x) of a
\* BasicCurve holding the logical sequence get(0), ..., get(C-1), at every
\* head position and for every x in [0,1].
C6_PositionAgrees ==
    (IsBuffer /\ last.op = "positionAt") =>
        last.ret = BasicCurve_positionAt(Logical(positions, addIndex), last.arg.x)

\* C7 (as claimed): BufferCurve.lengthAt(x) returns a number equal to
\* lengthAt(x) of a BasicCurve holding the logical sequence, in every state
\* including the freshly constructed one (head = 0).
C7_LengthAgrees ==
    (IsBuffer /\ last.op = "lengthAt") =>
        /\ ~last.ret.threw
        /\ last.ret = BasicCurve_lengthAt(Logical(positions, addIndex), last.arg.x)

\* the state is the pre-call state with sample v copied into slot s
Wrote(s, v) ==
    /\ ~last.ret.threw
    /\ s \in 0..(Len(positions) - 1)
    /\ positions = [last.pre.positions EXCEPT ![s + 1] = v]
    /\ addIndex = last.pre.addIndex

\* the call returned the sample object in slot s
Read(s) ==
    /\ ~last.ret.threw
    /\ s \in 0..(Len(positions) - 1)
    /\ last.ret = Ref(positions, s)

\* C8: index translation. get(i) and set(i, v), 0 <= i < C, address slot
\* (i + head) mod C; first addresses slot head; last addresses slot
\* (head - 1) mod C, which holds the most recently pushed sample.
C8_IndexTranslation ==
    IsBuffer =>
        /\ last.op = "get" => Read(Slot(last.arg.i + addIndex))
        /\ last.op = "set" => Wrote(Slot(last.arg.i + addIndex), last.arg.v)
        /\ last.op = "first" => Read(addIndex)
        /\ last.op = "setFirst" => Wrote(addIndex, last.arg.v)
        /\ last.op = "last" => Read(Slot(addIndex - 1))
        /\ last.op = "setLast" => Wrote(Slot(addIndex - 1), last.arg.v)
        /\ last.op = "push" =>
              /\ BufferCurve_last(positions, addIndex).slot = Slot(addIndex - 1)
              /\ BufferCurve_last(positions, addIndex).val = last.arg.v

C8_Witness ==
    /\ IsBuffer
    /\ last.op = "set"
    /\ Len(positions) = 3
    /\ last.arg.i + addIndex > Len(positions)
    /\ positions # last.pre.positions

\* C9 (as claimed): nexto (getter and setter) addresses slot (head - 2) mod C,
\* a slot in [0, C-1], for every capacity C >= 1 and every head position.
C9_Nexto ==
    IsBuffer =>
        /\ last.op = "nexto" => Read(Slot(addIndex - 2))
        /\ last.op = "setNexto" => Wrote(Slot(addIndex - 2), last.arg.v)

\* C10: BufferCurve.pop() returns the sample in slot (head - 1) mod C and
\* sets head to (head - 1) mod C, changes no stored sample and not the
\* capacity; C consecutive pops bring head back to where it started.
C10_Pop ==
    (IsBuffer /\ last.op = "pop") =>
        /\ last.ret = Ref(last.pre.positions, (last.pre.addIndex - 1) % length0)
        /\ addIndex = (last.pre.addIndex - 1) % length0
        /\ positions = last.pre.positions
        /\ Len(positions) = length0
        /\ popRun.n = length0 => addIndex = popRun.from

C10_Witness ==
    /\ IsBuffer
    /\ last.op = "pop"
    /\ length0 = 3
    /\ popRun = [n |-> 3, from |-> 1]
    /\ addIndex = 1

\* C11: bounds invariant. In every state of a BufferCurve reachable by push,
\* pop, clear and set, the store has the C slots it was constructed with,
\* 0 <= head < C, and for every x in [0,1] indexAt(x) returns i0 and i1 in
\* [0, C-1].
C11_Bounds ==
    IsBuffer =>
        /\ Len(positions) = length0
        /\ addIndex \in 0..(length0 - 1)
        /\ \A x \in Params :
              LET ix == BufferCurve_indexAt(positions, addIndex, x)
              IN  ix[1] \in 0..(length0 - 1) /\ ix[2] \in 0..(length0 - 1)
        /\ last.op = "indexAt" =>
              /\ last.ret.val[1] \in 0..(length0 - 1)
              /\ last.ret.val[2] \in 0..(length0 - 1)

C11_Witness ==
    /\ IsBuffer
    /\ length0 = 3
    /\ addIndex = 2
    /\ last.op = "indexAt"
    /\ last.arg.x = <<1, 1>>
    /\ last.ret.val[1] = 1

----------------------------------------------------------------------------
(* Properties of the solver *)

\* explicit Euler: the state after n updates of step h from u at time t0
RECURSIVE EulerFrom(_, _, _, _, _)
EulerFrom(f, u, h, t0, n) ==
    IF n = 0 THEN u
    ELSE LET p == EulerFrom(f, u, h, t0, n - 1)
         IN  comb(p, h, Derivative(f, p, t0 + (n - 1) * h))

\* a solve call has returned
Solved == scall.op = "solve" /\ scall.ret = "u1"

\* the step from this state to the next is a call of step, of reset, the
\* entry of solve, one iteration of its loop
StepCalled == scall'.op = "step" /\ steps'.twin # steps.twin + 1

ResetCalled == scall'.op = "reset"

SolveCalled == run.at = "idle" /\ run'.at = "solve"

Iterated == run.at = "solve" /\ run'.n = run.n + 1

\* C12: step() replaces u1 by u1 + dt * f(u1, t), f evaluated at the pre-step
\* state and time, then advances t by dt, leaves u0 and f unchanged and
\* returns the u1 buffer; step(ic, dt') first copies ic into the stored state
\* and uses dt' for this step and keeps it as the step size.
C12_Step ==
    [][StepCalled =>
          LET u0 == scall'.u0
              start == IF u0 = Undefined THEN solver.u1 ELSE u0
              h == IF scall'.dt = Undefined THEN solver.dt ELSE scall'.dt[1]
          IN  /\ solver'.u1
                    = comb(start, h, Derivative(solver.f, start, solver.t))
              /\ solver'.t = solver.t + h
              /\ solver'.dt = h
              /\ solver'.f = solver.f
              /\ solver'.u0 = IF u0 = Undefined THEN solver.u0 ELSE u0
              /\ scall'.ret = "u1"]_vars

C12_Witness ==
    /\ scall.op = "step"
    /\ scall.u0 = Undefined
    /\ scall.dt = Undefined
    /\ steps.main = 3
    /\ solver.f.name = "ramp"
    /\ solver.dt = 1
    /\ solver.u1 = <<3, 1>>

\* C13: in step and in solve the field is called with the scratch buffer tmp,
\* holding a copy of the pre-step state, and the pre-step time, never with
\* u1: after the update tmp holds what the field left in its argument, and a
\* field that overwrites and returns its argument yields the same new state
\* u1 + dt * f(u1, t) as a pure field with the same derivative.
C13_ScratchBuffer ==
    [][(StepCalled \/ Iterated) =>
          LET start == IF StepCalled /\ scall'.u0 # Undefined
                       THEN scall'.u0 ELSE solver.u1
              d == Derivative(solver.f, start, solver.t)
          IN  /\ solver'.tmp = IF InPlace(solver.f) THEN d ELSE start
              /\ solver'.u1 = comb(start, solver'.dt, d)]_vars

C13_Witness ==
    /\ Solved
    /\ solver.f.name = "gravity"
    /\ run.n = 2
    /\ solver.u1 = <<1, 2>>
    /\ solver.tmp = <<1, 1>>

\* C14: solve(tmax, ic, dt) with dt > 0 applies the Euler update once for
\* each time 0, dt, 2dt, ... strictly below tmax, starting from ic, and
\* returns with t the first multiple of dt that is >= tmax, so that
\* tmax <= t < tmax + dt if tmax > 0; with tmax <= 0 it makes no update and
\* returns with t = 0.
C14_Solve ==
    (kind = "Solver" /\ scall.op = "solve" /\ scall.u0 # Undefined
         /\ solver.dt > 0) =>
        /\ solver.t = run.n * solver.dt
        /\ solver.u1 = EulerFrom(solver.f, scall.u0, solver.dt, 0, run.n)
        /\ run.n > 0 => (run.n - 1) * solver.dt < run.tmax
        /\ Solved =>
              /\ solver.t >= run.tmax
              /\ run.tmax > 0 => solver.t < run.tmax + solver.dt
              /\ run.tmax <= 0 =>
                    solver.t = 0 /\ run.n = 0 /\ solver.u1 = scall.u0

C14_Witness ==
    /\ Solved
    /\ scall.u0 = <<0, 1>>
    /\ scall.dt = Num(2)
    /\ run.tmax = 1
    /\ run.n = 1
    /\ solver.t = 2

\* C15 (as claimed): solve(tmax) called without an initial condition computes
\* the solution that starts from the stored initial condition u0 at t = 0,
\* whatever calls came before.
C15_SolveFromU0 ==
    (kind = "Solver" /\ Solved /\ scall.u0 = Undefined /\ solver.dt > 0) =>
        solver.u1 = EulerFrom(solver.f, solver.u0, solver.dt, 0, run.n)

\* C16: reset(ic, dt) sets t to 0, makes u0, u1 and tmp equal to ic (to the
\* stored u0 when ic is omitted), stores dt (keeps it when omitted) and
\* leaves f unchanged; a step() that follows returns ic + dt * f(ic, 0).
C16_Reset ==
    [][/\ ResetCalled =>
            LET ic == IF scall'.u0 = Undefined THEN solver.u0 ELSE scall'.u0
                h == IF scall'.dt = Undefined THEN solver.dt ELSE scall'.dt[1]
            IN  solver' = [f |-> solver.f, dt |-> h, t |-> 0,
                           u0 |-> ic, u1 |-> ic, tmp |-> ic]
       /\ (scall.op = "reset" /\ StepCalled /\ scall'.u0 = Undefined
              /\ scall'.dt = Undefined) =>
            LET ic == IF scall.u0 = Undefined THEN solver.u0 ELSE scall.u0
                h == IF scall.dt = Undefined THEN solver.dt ELSE scall.dt[1]
            IN  solver'.u1 = comb(ic, h, Derivative(solver.f, ic, 0))]_vars

C16_Witness ==
    /\ scall.op = "reset"
    /\ scall.u0 = <<0, 1>>
    /\ scall.dt = Num(2)
    /\ solver.f.name = "gravity"
    /\ solver = Solver_new(solver.f, 2, <<0, 1>>)

C18_Determinism ==
    kind = "Solver" =>
        /\ (steps.main >= 0 /\ steps.main = steps.twin) =>
              twin.u1 = solver.u1 /\ twin.t = solver.t
        /\ \A a \in Ics, b \in Ics :
              LET S == Solver_step([solver EXCEPT !.u0 = a, !.tmp = b],
                                   Undefined, Undefined)
                  R == Solver_step(solver, Undefined, Undefined)
              IN  S.u1 = R.u1 /\ S.t = R.t

C18_Witness ==
    /\ steps.main = 3
    /\ steps.twin = 3
    /\ solver.f.name = "oscillator"
    /\ solver.dt = 1
    /\ solver.u1 # solver.u0

\* C19: solve terminates for every dt > 0; with dt <= 0 and tmax > 0 its loop
\* condition stays true and it never returns; with tmax <= 0 it returns at
\* once without evaluating the field.
C19_Termination ==
    /\ (run.at = "solve" /\ (solver.dt > 0 \/ run.tmax <= 0))
           ~> (run.at = "idle")
    /\ []((run.at = "solve" /\ solver.dt <= 0 /\ run.tmax > 0) =>
             Solver_solve_test(solver, run.tmax))
    /\ [][(run.at = "solve" /\ solver.dt <= 0 /\ run.tmax > 0) =>
             run'.at = "solve"]_vars
    /\ []((run.at = "solve" /\ run.tmax <= 0) =>
             run.n = 0 /\ ~Solver_solve_test(solver, run.tmax))

C19_Witness ==
    /\ run.at = "solve"
    /\ solver.dt = -1
    /\ run.tmax = 1
    /\ run.n = 3
    /\ solver.t = -3

\* C20: for the constant acceleration field of acceleration k, started from
\* the zero state, n calls of step() with step dt yield velocity k*n*dt and
\* position (1/2)*k*dt^2*n*(n-1), and solve(tmax) yields the same values
\* with n = tmax/dt when dt divides tmax.
C20_Gravity ==
    (kind = "Solver" /\ solver.f.name = "gravity" /\ solver.u0 = <<0, 0>>) =>
        LET k == solver.f.k
            h == solver.dt
            g(n) == <<(k * h * h * n * (n - 1)) \div 2, k * n * h>>
        IN  /\ steps.main >= 0 => solver.u1 = g(steps.main)
            /\ (Solved /\ run.fresh /\ h > 0 /\ run.tmax > 0
                   /\ run.tmax % h = 0) =>
                  solver.u1 = g(run.tmax \div h)

C20_Witness ==
    /\ Solved
    /\ run.fresh
    /\ scall.u0 = Undefined
    /\ solver.f.name = "gravity"
    /\ solver.u0 = <<0, 0>>
    /\ solver.dt = 1
    /\ run.tmax = 2
    /\ solver.u1 = <<1, 2>>

----------------------------------------------------------------------------
(* Properties of the curves: steps, lengths, calls on an empty curve *)

\* C21 (as claimed): a Curve constructed with N >= 1 samples and a scalar step
\* has dt.length = positions.length - 1 after construction and after every
\* sequence of push, pop and clear calls.
C21_StepInvariant ==
    (kind = "Curve" /\ length0 >= 1) => Len(dt) = Len(positions) - 1

\* C22 (as claimed): Curve.push(sample, step) appends the sample and exactly
\* one step: the given step whenever one is passed, otherwise the previously
\* last step, otherwise 1; the earlier samples and steps are unchanged.
C22_PushStep ==
    (kind = "Curve" /\ last.op = "push") =>
        /\ positions = Append(last.pre.positions, last.arg.v)
        /\ dt = Append(last.pre.dt,
                       IF last.arg.step # Undefined THEN last.arg.step[1]
                       ELSE IF Len(last.pre.dt) > 0
                            THEN last.pre.dt[Len(last.pre.dt)]
                            ELSE 1)

\* length of the polyline through the samples 0..n of P
RECURSIVE Polyline(_, _)
Polyline(P, n) ==
    IF n <= 0 THEN 0 ELSE Polyline(P, n - 1) + dist(P[n], P[n + 1])

\* C23: length formula. On a Curve or BasicCurve of N >= 1 samples and for x
\* in [0,1], lengthAt(x) (length(x) on Curve) is the sum of the distances
\* between consecutive samples for the indices 1..i0 plus frac times the
\* distance from sample i0 to sample i1, with (i0, i1, frac) = indexAt(x);
\* lengthAt(0) = 0, lengthAt(1) is the length of the whole polyline, and a
\* curve of one sample has length 0 everywhere. Lengths are numerators over
\* the denominator q of x = p/q.
C23_LengthFormula ==
    (/\ kind \in {"BasicCurve", "Curve"}
     /\ last.op \in {"lengthAt", "length"}
     /\ Len(positions) >= 1) =>
        LET P == positions
            x == last.arg.x
            ix == BasicCurve_indexAt(P, x)
        IN  /\ ~last.ret.threw
            /\ last.ret.num = Polyline(P, ix[1]) * x[2]
                                + ix[3] * dist(P[ix[1] + 1], P[ix[2] + 1])
            /\ x = <<0, 1>> => last.ret.num = 0
            /\ x = <<1, 1>> => last.ret.num = Polyline(P, Len(P) - 1)
            /\ Len(P) = 1 => last.ret.num = 0

\* length(2/3) on three samples: one whole segment of length 3 and a third
\* of the segment of length 5, i.e. 14/3
C23_Witness ==
    /\ kind = "Curve"
    /\ last.op = "length"
    /\ last.arg.x = <<2, 3>>
    /\ positions = <<<<0, 0, 0>>, <<3, 0, 0>>, <<0, 4, 0>>>>
    /\ last.ret.num = 14

----------------------------------------------------------------------------
(* Properties of graph *)

----------------------------------------------------------------------------
(* Properties of the error cases *)

\* C25 (as claimed): indexAt(x), positionAt(x) and lengthAt(x) with x outside
\* [0,1] fail at once with InvalidParameter, on the growable curves and on
\* BufferCurve; they never return a clamped or wrapped result.
C25_OutOfRange ==
    (/\ last.op \in {"indexAt", "positionAt", "lengthAt", "position", "length"}
     /\ last.arg.x[1] < 0 \/ last.arg.x[1] > last.arg.x[2]) =>
        last.ret.threw

\* C26 (as claimed): pop, first and last on a curve that holds no sample (a
\* Curve or BasicCurve after clear or after popping every sample, a
\* BufferCurve of capacity 0) signal EmptyCollection and leave the state
\* unchanged.
C26_EmptyCollection ==
    (/\ kind \in {"BasicCurve", "Curve"}
     /\ last.op \in {"pop", "first", "last"}
     /\ Len(last.pre.positions) = 0) =>
        last.ret.threw /\ State = last.pre

----------------------------------------------------------------------------
(* Properties of BufferCurve.clear *)

----------------------------------------------------------------------------
(* Properties of the solver: solve as repeated steps, the caller's vector *)

\* the solver S after n calls step()
RECURSIVE StepN(_, _)
StepN(S, n) ==
    IF n = 0 THEN S ELSE Solver_step(StepN(S, n - 1), Undefined, Undefined)

\* C27: solve(tmax, ic, dt) with dt > 0 and tmax > 0 does what reset(ic, dt)
\* followed by n calls step() does, n being the number of multiples of dt
\* strictly below tmax: before each of its updates the solver is in the state
\* the step() calls reach (so f receives the same states and times, in the
\* same order), and it returns with the same u1, t, dt and u0.
C27_SolveAsSteps ==
    (/\ kind = "Solver"
     /\ scall.op = "solve"
     /\ scall.u0 # Undefined
     /\ scall.dt # Undefined
     /\ solver.dt > 0
     /\ run.tmax > 0) =>
        LET R == StepN(Solver_reset(solver, scall.u0, scall.dt), run.n)
        IN  /\ solver.u1 = R.u1
            /\ solver.t = R.t
            /\ solver.dt = R.dt
            /\ solver.u0 = R.u0
            /\ run.n >= 1 => solver.tmp = R.tmp
            /\ Solved =>
                  run.n = Cardinality({k \in 0..run.tmax :
                                          k * solver.dt < run.tmax})

\* solve(2, (0,1), 1) on the time dependent field: two updates
C27_Witness ==
    /\ Solved
    /\ solver.f.name = "ramp"
    /\ scall.u0 = <<0, 1>>
    /\ scall.dt = Num(1)
    /\ run.tmax = 2
    /\ run.n = 2
    /\ solver.u1 = <<1, 1>>
    /\ solver.t = 2

\* the vector object the caller passed to the constructor: the solver keeps
\* that very object as its field u0
CallerIc == solver.u0

\* C28 (as claimed): the solver never modifies the vector the caller passed
\* to the constructor as initial condition: after any step(ic'),
\* solve(tmax, ic') or reset(ic') that object still has the value it had at
\* construction.
C28_CallerIcKept == [][CallerIc' = CallerIc]_vars

----------------------------------------------------------------------------
(* Properties of bufferize *)

\* C29 (as claimed): the BufferCurve made by bufferize(curve) is independent
\* of the curve: no later push, pop, set or translate on the curve changes
\* the capacity or the samples of the buffer, and no push or set on the
\* buffer changes the samples of the curve.
C29_Independent ==
    [][/\ last'.op \in {"source.push", "source.pop", "source.set",
                        "source.translate"} =>
             BufferPositions' = BufferPositions
       /\ last'.op \in {"buffer.push", "buffer.set"} =>
             SourcePositions' = SourcePositions]_vars

====
